---- MODULE Spec2Model ----
(***************************************************************************)
(* Model of the BINAH topic API (src/index.js): an express application    *)
(* whose handlers translate HTTP requests into single SQL statements on   *)
(* the table `topics` of a MySQL database reached through a pool.         *)
(*                                                                         *)
(* Text values are sequences of one-character strings.  Two one-element   *)
(* sequences of a token that is no character stand for the values that    *)
(* are not text: JavaScript's undefined and SQL's NULL.                   *)
(***************************************************************************)
EXTENDS Integers, Sequences, FiniteSets, TLC

VARIABLES
  pool,         \* TRUE iff process.env.DB_HOST was set and the pool was created
  strictMode,   \* the storage engine's sql_mode: TRUE iff a strict mode is on
  tableExists,  \* TRUE iff the table `topics` exists in the database
  rows,         \* the rows of `topics`
  autoInc,      \* the next AUTO_INCREMENT value of topics.id
  now,          \* CURRENT_TIMESTAMP of the storage engine (whole seconds)
  pending,      \* per client: the handler suspended at its `await pool.query`
  res,          \* the response sent and not yet taken by its client (else NoRes)
  created,      \* history: the ids returned by successful creates, in order
  viewCalls,    \* history: per id, completed increment-view requests that hit the row
  helpfulCalls, \* history: per id, completed increment-helpful requests that hit the row
  createdWith   \* history: per id, the index in Bodies of the body that created
                \* the row, 0 once the row was replaced or deleted

vars == <<pool, strictMode, tableExists, rows, autoInc, now, pending, res,
          created, viewCalls, helpfulCalls, createdWith>>

----------------------------------------------------------------------------
(* Bounds of the model *)

MaxId == 2        \* ids the clients name, and the number of creates
MaxCount == 2     \* increments counted by the stored rows or in flight
MaxClock == 1     \* the clock ticks at most this often
MaxLimit == 2     \* the largest LIMIT a client asks for
NumClients == 2   \* concurrent clients of the concurrent specification

Ids == 1..MaxId
Clients == 1..NumClients

----------------------------------------------------------------------------
(* Text *)

Undefined == <<"undefined">>
Null == <<"NULL">>

\* JavaScript truthiness of a string-or-undefined value.
Truthy(v) == v # Undefined /\ v # Null /\ v # <<>>

\* mysql2 sends an undefined parameter as NULL.
ToSql(v) == IF v = Undefined THEN Null ELSE v

Min(a, b) == IF a < b THEN a ELSE b

\* String.prototype.substring(0, n)
Substring0(s, n) == SubSeq(s, 1, Min(n, Len(s)))

\* content.replace(/<[^>]*>/g, ''): a match starts at the first '<' and ends at
\* the first '>' after it; the scan goes on behind the match.  When the first
\* '<' has no '>' after it, no later '<' has one either.
RECURSIVE StripTags(_)
StripTags(s) ==
  IF \A j \in 1..Len(s) : s[j] # "<" THEN s
  ELSE LET a == CHOOSE j \in 1..Len(s) :
                  s[j] = "<" /\ \A k \in 1..(j - 1) : s[k] # "<"
       IN  IF \A j \in (a + 1)..Len(s) : s[j] # ">" THEN s
           ELSE LET b == CHOOSE j \in (a + 1)..Len(s) :
                           s[j] = ">" /\ \A k \in (a + 1)..(j - 1) : s[k] # ">"
                IN  SubSeq(s, 1, a - 1) \o StripTags(SubSeq(s, b + 1, Len(s)))

PreviewLen == 200
Ellipsis == <<".", ".", ".">>

\* const preview = content ? content.replace(...).substring(0, 200) + '...' : ''
MakePreview(content) ==
  IF Truthy(content)
    THEN Substring0(StripTags(content), PreviewLen) \o Ellipsis
    ELSE <<>>

\* Array.prototype.join(sep)
RECURSIVE Join(_, _)
Join(items, sep) ==
  IF items = <<>> THEN <<>>
  ELSE IF Len(items) = 1 THEN items[1]
  ELSE items[1] \o sep \o Join(Tail(items), sep)

\* String.prototype.split(',') of a non-empty string
RECURSIVE SplitComma(_)
SplitComma(s) ==
  IF \E j \in 1..Len(s) : s[j] = ","
    THEN LET j == CHOOSE j \in 1..Len(s) :
                    s[j] = "," /\ \A k \in 1..(j - 1) : s[k] # ","
         IN  <<SubSeq(s, 1, j - 1)>> \o SplitComma(SubSeq(s, j + 1, Len(s)))
    ELSE <<s>>

\* String.prototype.trim()
RECURSIVE Trim(_)
Trim(s) ==
  IF s = <<>> THEN s
  ELSE IF Head(s) = " " THEN Trim(Tail(s))
  ELSE IF s[Len(s)] = " " THEN Trim(SubSeq(s, 1, Len(s) - 1))
  ELSE s

\* Array.isArray(keywords) ? keywords.join(', ') : keywords || ''
\* A body's keywords are [isArray, items, str]: items when an array was sent,
\* str (a string or undefined) otherwise.
KeywordStr(k) ==
  IF k.isArray THEN Join(k.items, <<",", " ">>)
  ELSE IF Truthy(k.str) THEN k.str ELSE <<>>

\* Fault: the split without the trim.
SplitKeywordsNoTrim(stored) ==
  IF Truthy(stored) THEN SplitComma(stored) ELSE <<>>

\* topic.keywords ? topic.keywords.split(',').map(k => k.trim()) : []
SplitKeywords(stored) ==
  IF Truthy(stored)
    THEN LET parts == SplitComma(stored)
         IN  [i \in 1..Len(parts) |-> Trim(parts[i])]
    ELSE <<>>

AuthorDefault == <<"U", "s", "u", "a", "r", "i", "o">>

\* author || 'Usuario'
AuthorOrDefault(author) == IF Truthy(author) THEN author ELSE AuthorDefault

\* The row transformer of the two read handlers.
ToTopic(row) == [row EXCEPT !.keywords = SplitKeywords(row.keywords)]

----------------------------------------------------------------------------
(* Inputs *)

T(c) == <<c>>

NoKeywords == [isArray |-> FALSE, items |-> <<>>, str |-> Undefined]
KwArray(items) == [isArray |-> TRUE, items |-> items, str |-> Undefined]
KwString(s) == [isArray |-> FALSE, items |-> <<>>, str |-> s]

\* A request body with every field omitted: {}
EmptyBody ==
  [title |-> Undefined, category |-> Undefined, keywords |-> NoKeywords,
   content |-> Undefined, author |-> Undefined, preview |-> Undefined]

\* Content longer than the preview once its markup is stripped.
LongContent == <<"<", "i", ">">> \o [i \in 1..(PreviewLen + 1) |-> "z"] \o <<"<", "/", "i", ">">>

\* "<b>Hi</b> there"
HiThere ==
  <<"<", "b", ">", "H", "i", "<", "/", "b", ">", " ", "t", "h", "e", "r", "e">>

\* The request bodies the clients send, by index.
\*  1..3 drive the general specification, 4..9 vary the keywords, 1, 3 and 4
\*  fill the table the list specification queries, and 10 has the content
\*  that is longer than a preview.
Bodies ==
  << [EmptyBody EXCEPT !.title = T("a"), !.category = T("x"),
                       !.keywords = KwArray(<<T("a"), T("b")>>),
                       !.content = HiThere, !.preview = T("p")],
     EmptyBody,
     [EmptyBody EXCEPT !.title = T("b"), !.category = T("y"),
                       !.keywords = KwString(T("k")),
                       !.content = <<"H", "i">>, !.author = T("u")],
     [EmptyBody EXCEPT !.title = T("t"), !.keywords = KwArray(<<>>)],
     [EmptyBody EXCEPT !.title = T("t"), !.keywords = KwArray(<<<<>>>>)],
     [EmptyBody EXCEPT !.title = T("t"), !.keywords = KwArray(<<<<>>, T("a")>>)],
     [EmptyBody EXCEPT !.title = T("t"), !.keywords = KwArray(<<<<" ", "a">>, T("b")>>)],
     [EmptyBody EXCEPT !.title = T("t"), !.keywords = KwArray(<<<<"a", ",", "b">>>>)],
     [EmptyBody EXCEPT !.title = T("t"),
                       !.keywords = KwArray(<<<<"a", " ", "b">>, T("c"), T("a")>>)],
     [EmptyBody EXCEPT !.title = T("b"), !.category = T("y"),
                       !.keywords = KwString(T("k")),
                       !.content = LongContent, !.author = T("u")] >>

GeneralBodies == 1..3
KeywordBodies == {1} \cup (4..9)
ListBodies == {1, 3, 4}
PreviewBodies == {1, 2, 10}

\* req.query.search and req.query.category: absent, or a non-empty string.
Searches == {Undefined, T("b"), T("_"), <<"H", "i">>}
Categories == {Undefined, <<"a", "l", "l">>, T("x")}

\* req.query.limit, as parseInt reads it: absent, NaN, or an integer.
NoLimit == [given |-> FALSE, nan |-> FALSE, n |-> 0]
Limits ==
  {NoLimit, [given |-> TRUE, nan |-> TRUE, n |-> 0]}
    \cup {[given |-> TRUE, nan |-> FALSE, n |-> k] : k \in (-1)..MaxLimit}

----------------------------------------------------------------------------
(* The storage engine: the statements of src/index.js on the table topics *)

NoParams ==
  [title |-> Null, category |-> Null, keywords |-> Null,
   preview |-> Null, content |-> Null, author |-> Null]

NoStmt ==
  [kind |-> "none", id |-> 0, p |-> NoParams,
   search |-> Undefined, category |-> Undefined, limit |-> NoLimit]

\* The parameter list [title, category, keywordStr, preview, content, author]
Params(title, category, keywordStr, preview, content, author) ==
  [title |-> ToSql(title), category |-> ToSql(category),
   keywords |-> ToSql(keywordStr), preview |-> ToSql(preview),
   content |-> ToSql(content), author |-> ToSql(author)]

\* x LIKE pattern: '%' matches any run of characters, '_' any one character.
RECURSIVE LikeMatch(_, _)
LikeMatch(s, p) ==
  IF p = <<>> THEN s = <<>>
  ELSE IF Head(p) = "%"
       THEN \E k \in 0..Len(s) : LikeMatch(SubSeq(s, k + 1, Len(s)), Tail(p))
  ELSE IF s = <<>> THEN FALSE
  ELSE (Head(p) = "_" \/ Head(p) = Head(s)) /\ LikeMatch(Tail(s), Tail(p))

\* column LIKE ? with a NULL column is NULL, which WHERE treats as false.
Like(col, pattern) == col # Null /\ LikeMatch(col, pattern)

\* const searchTerm = `%${search}%`
SearchTerm(search) == <<"%">> \o search \o <<"%">>

\* The WHERE clause the list handler assembles.
Where(r, s) ==
  /\ Truthy(s.search) =>
       \/ Like(r.title, SearchTerm(s.search))
       \/ Like(r.keywords, SearchTerm(s.search))
       \/ Like(r.content, SearchTerm(s.search))
  /\ (Truthy(s.category) /\ s.category # <<"a", "l", "l">>) =>
       r.category = s.category

\* Fault: ORDER BY created_date ASC.
OrderedAsc(seq) ==
  \A i, j \in 1..Len(seq) : i < j => seq[i].created_date <= seq[j].created_date

\* ORDER BY created_date DESC: rows of equal created_date come in any order.
Ordered(seq) ==
  \A i, j \in 1..Len(seq) : i < j => seq[i].created_date >= seq[j].created_date

\* The sequences a SELECT ... ORDER BY may return for the set S of rows.
Orderings(S) ==
  {f \in [1..Cardinality(S) -> S] :
     /\ \A i, j \in 1..Cardinality(S) : i # j => f[i] # f[j]
     /\ Ordered(f)}

\* LIMIT ?
Limited(seq, limit) ==
  IF limit.given THEN Substring0(seq, limit.n) ELSE seq

\* Fault: the next id taken as MAX(id) + 1 of the stored rows.
InsertIdMaxPlusOne ==
  IF rows = {} THEN 1
  ELSE 1 + CHOOSE m \in {r.id : r \in rows} : \A r \in rows : r.id <= m

\* id INT AUTO_INCREMENT PRIMARY KEY
InsertId == autoInc

\* views INT DEFAULT 0, helpful INT DEFAULT 0,
\* created_date TIMESTAMP DEFAULT CURRENT_TIMESTAMP

NewRow(p) ==
  [id |-> InsertId, title |-> p.title, category |-> p.category,
   keywords |-> p.keywords, preview |-> p.preview, content |-> p.content,
   author |-> p.author, created_date |-> now, views |-> 0, helpful |-> 0]

\* Fault: the increment lands on the other counter.
IncrementOther(r, col) ==
  IF col = "views" THEN [r EXCEPT !.helpful = @ + 1]
  ELSE [r EXCEPT !.views = @ + 1]

\* SET views = views + 1 / SET helpful = helpful + 1
Increment(r, col) ==
  IF col = "views" THEN [r EXCEPT !.views = @ + 1]
  ELSE [r EXCEPT !.helpful = @ + 1]

\* Fault: a NULL title, category or content keeps the row's previous value.
AssignMerge(r, p) ==
  [r EXCEPT !.title = IF p.title = Null THEN r.title ELSE p.title,
            !.category = IF p.category = Null THEN r.category ELSE p.category,
            !.keywords = p.keywords, !.preview = p.preview,
            !.content = IF p.content = Null THEN r.content ELSE p.content,
            !.author = p.author]

\* SET title = ?, category = ?, keywords = ?, preview = ?, content = ?, author = ?
\* title is NOT NULL: without a strict sql_mode a NULL is stored as ''.
Assign(r, p) ==
  [r EXCEPT !.title = IF p.title = Null THEN <<>> ELSE p.title,
            !.category = p.category, !.keywords = p.keywords,
            !.preview = p.preview, !.content = p.content,
            !.author = p.author]

\* Whether the engine rejects statement s in the current state.
Rejects(s) ==
  CASE s.kind = "CREATE TABLE" -> FALSE
    [] ~tableExists -> TRUE
    [] s.kind = "INSERT" -> s.p.title = Null
    [] s.kind = "UPDATE ALL" ->
         strictMode /\ s.p.title = Null /\ \E r \in rows : r.id = s.id
    [] s.kind = "SELECT LIST" -> s.limit.given /\ (s.limit.nan \/ s.limit.n < 0)
    [] OTHER -> FALSE

\* The rows of topics after statement s.
RowsAfter(s) ==
  CASE Rejects(s) -> rows
    [] s.kind = "INSERT" -> rows \cup {NewRow(s.p)}
    [] s.kind = "UPDATE VIEWS" ->
         {IF r.id = s.id THEN Increment(r, "views") ELSE r : r \in rows}
    [] s.kind = "UPDATE HELPFUL" ->
         {IF r.id = s.id THEN Increment(r, "helpful") ELSE r : r \in rows}
    [] s.kind = "UPDATE ALL" ->
         {IF r.id = s.id THEN Assign(r, s.p) ELSE r : r \in rows}
    [] s.kind = "DELETE" -> {r \in rows : r.id # s.id}
    [] OTHER -> rows

\* SELECT category, COUNT(*) as count ... GROUP BY category ORDER BY count DESC
StatsOf(S) ==
  LET cats == {r.category : r \in S}
      count(c) == Cardinality({r \in S : r.category = c})
  IN  {f \in [1..Cardinality(cats) -> {[category |-> c, count |-> count(c)] : c \in cats}] :
         /\ \A i, j \in 1..Cardinality(cats) : i # j => f[i] # f[j]
         /\ \A i, j \in 1..Cardinality(cats) : i < j => f[i].count >= f[j].count}

\* What the engine hands back for statement s: every outcome it may produce.
Outcomes(s) ==
  LET base == [err |-> Rejects(s), rows |-> RowsAfter(s),
               insertId |-> 0, matched |-> 0, result |-> <<>>]
  IN  CASE Rejects(s) -> {base}
        [] s.kind = "INSERT" -> {[base EXCEPT !.insertId = InsertId]}
        [] s.kind \in {"UPDATE VIEWS", "UPDATE HELPFUL", "UPDATE ALL", "DELETE"} ->
             {[base EXCEPT !.matched = Cardinality({r \in rows : r.id = s.id})]}
        [] s.kind = "SELECT ONE" ->
             {[base EXCEPT !.result = o] : o \in Orderings({r \in rows : r.id = s.id})}
        [] s.kind = "SELECT LIST" ->
             {[base EXCEPT !.result = Limited(o, s.limit)] :
                o \in Orderings({r \in rows : Where(r, s)})}
        [] s.kind = "SELECT STATS" ->
             {[base EXCEPT !.result = o] : o \in StatsOf(rows)}
        [] OTHER -> {base}

----------------------------------------------------------------------------
(* The handlers *)

\* A request: the route, req.params.id, the index of req.body in Bodies, the
\* body's incrementView and incrementHelpful flags, and req.query.
NoReq ==
  [op |-> "none", id |-> 0, body |-> 0, iv |-> FALSE, ih |-> FALSE,
   search |-> Undefined, category |-> Undefined, limit |-> NoLimit]

InitReq == [NoReq EXCEPT !.op = "init"]
ListReq(search, category, limit) ==
  [NoReq EXCEPT !.op = "list", !.search = search, !.category = category,
                !.limit = limit]
GetReq(id) == [NoReq EXCEPT !.op = "get", !.id = id]
CreateReq(b) == [NoReq EXCEPT !.op = "create", !.body = b]
PutReq(id, b, iv, ih) ==
  [NoReq EXCEPT !.op = "put", !.id = id, !.body = b, !.iv = iv, !.ih = ih]
DeleteReq(id) == [NoReq EXCEPT !.op = "delete", !.id = id]
StatsReq == [NoReq EXCEPT !.op = "stats"]

\* A response: the request it answers, the HTTP status, the body's success
\* flag, insertId, topics (the array of a list, the one topic of a get) and
\* stats, the kind of its error message, and the statement the handler issued
\* ("none" if it issued none).
NoRes ==
  [req |-> NoReq, status |-> 0, success |-> FALSE, insertId |-> 0,
   topics |-> <<>>, stats |-> <<>>, error |-> "none", query |-> "none"]

\* await pool.query(createTableSQL)
InitStmt == [NoStmt EXCEPT !.kind = "CREATE TABLE"]

\* SELECT * FROM topics [WHERE ...] ORDER BY created_date DESC [LIMIT ?]
ListStmt(search, category, limit) ==
  [NoStmt EXCEPT !.kind = "SELECT LIST", !.search = search,
                 !.category = category, !.limit = limit]

\* SELECT * FROM topics WHERE id = ?
GetStmt(id) == [NoStmt EXCEPT !.kind = "SELECT ONE", !.id = id]

\* Fault: a preview sent in the body is stored as it is.
BodyParamsWithPreview(b) ==
  Params(Bodies[b].title, Bodies[b].category, KeywordStr(Bodies[b].keywords),
         IF Truthy(Bodies[b].preview) THEN Bodies[b].preview
         ELSE MakePreview(Bodies[b].content),
         Bodies[b].content, AuthorOrDefault(Bodies[b].author))

\* The full-field parameters create and update compute from a body.
BodyParams(b) ==
  Params(Bodies[b].title, Bodies[b].category, KeywordStr(Bodies[b].keywords),
         MakePreview(Bodies[b].content), Bodies[b].content,
         AuthorOrDefault(Bodies[b].author))

\* INSERT INTO topics (title, category, keywords, preview, content, author) ...
CreateStmt(b) == [NoStmt EXCEPT !.kind = "INSERT", !.p = BodyParams(b)]

\* Fault: the helpful flag tested before the view flag.
PutStmtHelpfulFirst(id, b, iv, ih) ==
  IF ih THEN [NoStmt EXCEPT !.kind = "UPDATE HELPFUL", !.id = id]
  ELSE IF iv THEN [NoStmt EXCEPT !.kind = "UPDATE VIEWS", !.id = id]
  ELSE [NoStmt EXCEPT !.kind = "UPDATE ALL", !.id = id, !.p = BodyParams(b)]

\* The statement the update handler chooses: incrementView first, then
\* incrementHelpful, then the full-field update.
PutStmt(id, b, iv, ih) ==
  IF iv THEN [NoStmt EXCEPT !.kind = "UPDATE VIEWS", !.id = id]
  ELSE IF ih THEN [NoStmt EXCEPT !.kind = "UPDATE HELPFUL", !.id = id]
  ELSE [NoStmt EXCEPT !.kind = "UPDATE ALL", !.id = id, !.p = BodyParams(b)]

\* DELETE FROM topics WHERE id = ?
DeleteStmt(id) == [NoStmt EXCEPT !.kind = "DELETE", !.id = id]

StatsStmt == [NoStmt EXCEPT !.kind = "SELECT STATS"]

Statement(req) ==
  CASE req.op = "init" -> InitStmt
    [] req.op = "list" -> ListStmt(req.search, req.category, req.limit)
    [] req.op = "get" -> GetStmt(req.id)
    [] req.op = "create" -> CreateStmt(req.body)
    [] req.op = "put" -> PutStmt(req.id, req.body, req.iv, req.ih)
    [] req.op = "delete" -> DeleteStmt(req.id)
    [] req.op = "stats" -> StatsStmt

\* Fault: no handler tests the pool, and writes report success.
NoPoolReplyWritesSucceed(req) ==
  [NoRes EXCEPT !.req = req, !.status = 200,
                !.success = req.op \in {"create", "put", "delete"}]

\* The `if (!pool)` branch of each handler.
NoPoolReply(req) ==
  CASE req.op \in {"list", "stats"} -> [NoRes EXCEPT !.req = req, !.status = 200]
    [] req.op = "get" ->
         [NoRes EXCEPT !.req = req, !.status = 404, !.error = "Topic not found"]
    [] req.op = "init" ->
         [NoRes EXCEPT !.req = req, !.status = 500,
                       !.error = "Database not configured for production"]
    [] OTHER ->
         [NoRes EXCEPT !.req = req, !.status = 500,
                       !.error = "Database not available"]

\* Fault: an update or delete that matched no row is an error.
ReplyStrict(req, s, out) ==
  IF out.err \/ (req.op \in {"put", "delete"} /\ out.matched = 0)
    THEN [NoRes EXCEPT !.req = req, !.status = 500, !.query = s.kind,
                       !.error = "error.message"]
    ELSE [NoRes EXCEPT !.req = req, !.status = 200, !.success = TRUE,
                       !.query = s.kind]

\* What each handler sends once its query has returned or thrown.
Reply(req, s, out) ==
  LET r == [NoRes EXCEPT !.req = req, !.query = s.kind]
  IN  CASE out.err -> [r EXCEPT !.status = 500, !.error = "error.message"]
        [] req.op = "list" ->
             [r EXCEPT !.status = 200,
                       !.topics = [i \in 1..Len(out.result) |-> ToTopic(out.result[i])]]
        [] req.op = "get" ->
             IF Len(out.result) = 0
               THEN [r EXCEPT !.status = 404, !.error = "Topic not found"]
             ELSE [r EXCEPT !.status = 200, !.topics = <<ToTopic(out.result[1])>>]
        [] req.op = "create" ->
             [r EXCEPT !.status = 200, !.success = TRUE, !.insertId = out.insertId]
        [] req.op = "stats" -> [r EXCEPT !.status = 200, !.stats = out.result]
        [] OTHER -> [r EXCEPT !.status = 200, !.success = TRUE]

\* The engine runs statement s with outcome out.
DbApply(s, out) ==
  /\ rows' = out.rows
  /\ autoInc' = IF s.kind = "INSERT" /\ ~out.err THEN autoInc + 1 ELSE autoInc
  /\ tableExists' = (tableExists \/ s.kind = "CREATE TABLE")

\* The handler resumes after its await, answers, and the history is kept.
Finish(req, s, out) ==
  /\ res' = Reply(req, s, out)
  /\ created' = IF s.kind = "INSERT" /\ ~out.err
                  THEN Append(created, out.insertId) ELSE created
  /\ viewCalls' = IF ~out.err /\ out.matched = 1 /\ s.kind = "UPDATE VIEWS"
                    THEN [viewCalls EXCEPT ![s.id] = @ + 1]
                  ELSE IF out.matched = 1 /\ s.kind = "DELETE"
                    THEN [viewCalls EXCEPT ![s.id] = 0]
                  ELSE viewCalls
  /\ helpfulCalls' = IF ~out.err /\ out.matched = 1 /\ s.kind = "UPDATE HELPFUL"
                       THEN [helpfulCalls EXCEPT ![s.id] = @ + 1]
                     ELSE IF out.matched = 1 /\ s.kind = "DELETE"
                       THEN [helpfulCalls EXCEPT ![s.id] = 0]
                     ELSE helpfulCalls
  /\ createdWith' = IF s.kind = "INSERT" /\ ~out.err
                      THEN [createdWith EXCEPT ![out.insertId] = req.body]
                    ELSE IF out.matched = 1 /\ s.kind \in {"UPDATE ALL", "DELETE"}
                      THEN [createdWith EXCEPT ![s.id] = 0]
                    ELSE createdWith

History == <<created, viewCalls, helpfulCalls, createdWith>>
Config == <<pool, strictMode>>

\* One handler run from request to response, its single await included.
\* No handler reads res: a response is taken off before the next request, so
\* that what was answered last does not multiply the states.
Serve(req) ==
  /\ res = NoRes
  /\ IF ~pool
       THEN /\ res' = NoPoolReply(req)
            /\ UNCHANGED <<rows, autoInc, tableExists, History>>
       ELSE \E out \in Outcomes(Statement(req)) :
              /\ DbApply(Statement(req), out)
              /\ Finish(req, Statement(req), out)
  /\ UNCHANGED <<Config, now, pending>>

\* A handler that is not running; one suspended at its await is "awaiting"
\* until the engine has run its statement, then "resumable".
NoOut == [err |-> FALSE, rows |-> {}, insertId |-> 0, matched |-> 0, result |-> <<>>]
Idle == [pc |-> "idle", req |-> NoReq, out |-> NoOut]

\* Handlers of operation op suspended before the engine ran their statement.
InFlight(op) ==
  Cardinality({c \in Clients : pending[c].pc = "awaiting" /\ pending[c].req.op = op})

RECURSIVE Increments(_)
Increments(S) ==
  IF S = {} THEN 0
  ELSE LET r == CHOOSE x \in S : TRUE
       IN  r.views + r.helpful + Increments(S \ {r})

\* Guards that keep the model finite.
CanCreate == autoInc + InFlight("create") <= MaxId
CanIncrement == Increments(rows) + InFlight("put") < MaxCount

Init ==
  /\ pool \in BOOLEAN
  /\ strictMode \in BOOLEAN
  /\ tableExists = FALSE
  /\ rows = {}
  /\ autoInc = 1
  /\ now = 0
  /\ pending = [c \in Clients |-> Idle]
  /\ res = NoRes
  /\ created = <<>>
  /\ viewCalls = [i \in Ids |-> 0]
  /\ helpfulCalls = [i \in Ids |-> 0]
  /\ createdWith = [i \in Ids |-> 0]

\* app.get('/api/health')
Health ==
  /\ res = NoRes
  /\ res' = [NoRes EXCEPT !.req = [NoReq EXCEPT !.op = "health"], !.status = 200]
  /\ UNCHANGED <<Config, tableExists, rows, autoInc, now, pending, History>>

\* app.post('/api/init')
InitSchema ==
  /\ Serve(InitReq)

\* app.get('/api/topics')
ListTopics(search, category, limit) ==
  /\ Serve(ListReq(search, category, limit))

\* app.get('/api/topics/:id')
GetTopic(id) ==
  /\ Serve(GetReq(id))

\* app.post('/api/topics')
CreateTopic(b) == CanCreate /\ Serve(CreateReq(b))

\* app.put('/api/topics/:id')
PutTopic(id, b, iv, ih) ==
  /\ (iv \/ ih) => CanIncrement
  /\ Serve(PutReq(id, b, iv, ih))

\* app.delete('/api/topics/:id')
DeleteTopic(id) ==
  /\ Serve(DeleteReq(id))

\* app.get('/api/stats/categories')
CategoryStats ==
  /\ Serve(StatsReq)

\* A second passes on the engine's clock.
Tick ==
  /\ now < MaxClock
  /\ res = NoRes
  /\ now' = now + 1
  /\ UNCHANGED <<Config, tableExists, rows, autoInc, pending, res, History>>

\* The client takes the response.
TakeResponse ==
  /\ res # NoRes
  /\ res' = NoRes
  /\ UNCHANGED <<Config, tableExists, rows, autoInc, now, pending, History>>

Next ==
  \/ Health
  \/ InitSchema
  \/ \E l \in {NoLimit} : ListTopics(Undefined, Undefined, l)
  \/ \E id \in Ids : GetTopic(id)
  \/ \E b \in GeneralBodies : CreateTopic(b)
  \/ \E id \in Ids, b \in GeneralBodies, iv \in BOOLEAN, ih \in BOOLEAN :
       PutTopic(id, b, iv, ih)
  \/ \E id \in Ids : DeleteTopic(id)
  \/ CategoryStats
  \/ TakeResponse

Spec == Init /\ [][Next]_vars

\* The list handler under every filter, on tables built by create and delete.
NextList ==
  \/ InitSchema
  \/ \E s \in Searches, c \in Categories, l \in Limits : ListTopics(s, c, l)
  \/ \E b \in ListBodies : CreateTopic(b)
  \/ \E id \in Ids : DeleteTopic(id)
  \/ Tick
  \/ TakeResponse

SpecList == Init /\ [][NextList]_vars

\* Create and read back, over the keyword lists.
NextKeywords ==
  \/ InitSchema
  \/ \E b \in KeywordBodies : CreateTopic(b)
  \/ \E id \in Ids : GetTopic(id)
  \/ \E l \in {NoLimit} : ListTopics(Undefined, Undefined, l)
  \/ \E id \in Ids : PutTopic(id, 4, FALSE, FALSE)
  \/ \E id \in Ids : DeleteTopic(id)
  \/ TakeResponse

SpecKeywords == Init /\ [][NextKeywords]_vars

\* Create, update in each mode, delete and get, over the contents.
NextPreview ==
  \/ InitSchema
  \/ \E b \in PreviewBodies : CreateTopic(b)
  \/ \E id \in Ids : GetTopic(id)
  \/ \E id \in Ids, b \in PreviewBodies : PutTopic(id, b, FALSE, FALSE)
  \/ \E f \in (BOOLEAN \X BOOLEAN) \ {<<FALSE, FALSE>>} : PutTopic(1, 10, f[1], f[2])
  \/ \E id \in Ids : DeleteTopic(id)
  \/ TakeResponse

SpecPreview == Init /\ [][NextPreview]_vars

\* Full-field replacement of topics that were viewed, as time passes.
NextReplace ==
  \/ InitSchema
  \/ CreateTopic(1)
  \/ \E id \in Ids, b \in GeneralBodies : PutTopic(id, b, FALSE, FALSE)
  \/ \E iv \in BOOLEAN : PutTopic(1, 1, iv, ~iv)
  \/ Tick
  \/ TakeResponse

SpecReplace == Init /\ [][NextReplace]_vars

----------------------------------------------------------------------------
(* Concurrent clients: every handler is three steps, split at its await *)

\* The handler runs up to `await pool.query(...)`.
Begin(c, req) ==
  /\ pending[c].pc = "idle"
  /\ IF ~pool
       THEN res' = NoPoolReply(req) /\ UNCHANGED pending
       ELSE /\ res' = NoRes
            /\ pending' = [pending EXCEPT ![c] = [Idle EXCEPT !.pc = "awaiting",
                                                            !.req = req]]
  /\ UNCHANGED <<Config, tableExists, rows, autoInc, now, History>>

InitBegin(c) ==
  /\ Begin(c, InitReq)

CreateBegin(c, b) ==
  /\ CanCreate
  /\ Begin(c, CreateReq(b))

PutBegin(c, id, b, iv, ih) ==
  /\ CanIncrement
  /\ Begin(c, PutReq(id, b, iv, ih))

DeleteBegin(c, id) ==
  /\ Begin(c, DeleteReq(id))

\* The engine runs the statement of a suspended handler, atomically.
QueryExecute(c) ==
  /\ pending[c].pc = "awaiting"
  /\ \E out \in Outcomes(Statement(pending[c].req)) :
       /\ DbApply(Statement(pending[c].req), out)
       /\ pending' = [pending EXCEPT ![c].pc = "resumable",
                                     ![c].out = [out EXCEPT !.rows = {}]]
  /\ res' = NoRes
  /\ UNCHANGED <<Config, now, History>>

\* The handler resumes behind its await and sends the response.
HandlerResume(c) ==
  /\ pending[c].pc = "resumable"
  /\ Finish(pending[c].req, Statement(pending[c].req), pending[c].out)
  /\ pending' = [pending EXCEPT ![c] = Idle]
  /\ UNCHANGED <<Config, tableExists, rows, autoInc, now>>

NextConc ==
  \E c \in Clients :
    \/ InitBegin(c)
    \/ CreateBegin(c, 1)
    \/ \E iv \in BOOLEAN : PutBegin(c, 1, 1, iv, ~iv)
    \/ DeleteBegin(c, 1)
    \/ QueryExecute(c)
    \/ HandlerResume(c)

SpecConc == Init /\ [][NextConc]_vars

----------------------------------------------------------------------------
(* Claims *)

AllIdle == \A c \in Clients : pending[c].pc = "idle"

C1_Counted ==
  AllIdle =>
    \A r \in rows : r.views = viewCalls[r.id] /\ r.helpful = helpfulCalls[r.id]

C1_Step ==
  /\ \A r \in rows, q \in rows' :
       q.id = r.id => q.views >= r.views /\ q.helpful >= r.helpful
  /\ \A q \in rows' :
       (\A r \in rows : r.id # q.id) => q.views = 0 /\ q.helpful = 0

\* C1: under any interleaving of the handlers of concurrent clients, once every
\* request has completed, each stored topic's views equals the number of
\* completed increment-view requests that reached it since its creation, and
\* its helpful the number of completed increment-helpful requests; both
\* counters are 0 on create and no step decreases them.
C1_NoLostIncrement == [](C1_Counted) /\ [][C1_Step]_vars

\* Two handlers have both run their increment-view statement on the same
\* topic before either has answered, and the topic counts both.
C1_Witness ==
  \E c1, c2 \in Clients :
    /\ c1 # c2
    /\ \A c \in {c1, c2} :
         /\ pending[c].pc = "resumable"
         /\ pending[c].req.op = "put" /\ pending[c].req.iv
         /\ pending[c].req.id = 1 /\ pending[c].out.matched = 1
    /\ \E r \in rows : r.id = 1 /\ r.views = 2

Range(f) == {f[i] : i \in DOMAIN f}
RowIds(S) == {r.id : r \in S}

C2_Step ==
  (pool /\ res'.req.op = "put") =>
    LET q == res'.req
    IN  /\ q.iv =>
              /\ res'.query = "UPDATE VIEWS"
              /\ rows' = {IF r.id = q.id THEN [r EXCEPT !.views = @ + 1] ELSE r :
                            r \in rows}
        /\ (~q.iv /\ q.ih) =>
              /\ res'.query = "UPDATE HELPFUL"
              /\ rows' = {IF r.id = q.id THEN [r EXCEPT !.helpful = @ + 1] ELSE r :
                            r \in rows}
        /\ (~q.iv /\ ~q.ih) =>
              /\ res'.query = "UPDATE ALL"
              /\ res'.success =>
                   \A r \in rows' :
                     r.id = q.id => r.content = ToSql(Bodies[q.body].content)

\* C2: an update that sets the increment-view flag issues the views increment
\* and changes nothing but views of the named row, by 1, whatever else its body
\* holds; otherwise one that sets the increment-helpful flag does the same for
\* helpful; otherwise the body is applied as a full-field replacement.
C2_UpdateModes == [][C2_Step]_vars

\* An update with both flags set and a body full of other fields has
\* answered; the row it named counts one view, no helpful mark, and keeps the
\* title it was created with.
C2_Witness ==
  /\ res.req.op = "put" /\ res.req.iv /\ res.req.ih /\ res.req.body = 3
  /\ res.success
  /\ \E r \in rows :
       /\ r.id = res.req.id /\ r.views = 1 /\ r.helpful = 0
       /\ r.title = T("a") /\ r.content = HiThere

\* C3: without a pool, list and stats answer 200 with an empty array, get
\* answers 404, create, update and delete answer 500 without success, init
\* answers 500 with its configuration error, and no handler touches storage.
C3_NoDatabase ==
  ~pool =>
    /\ res.query = "none" /\ rows = {} /\ ~tableExists /\ autoInc = 1
    /\ ~res.success
    /\ res.req.op \in {"list", "stats"} =>
         res.status = 200 /\ res.topics = <<>> /\ res.stats = <<>>
    /\ res.req.op = "get" => res.status = 404 /\ res.error = "Topic not found"
    /\ res.req.op \in {"create", "put", "delete"} =>
         res.status = 500 /\ res.error = "Database not available"
    /\ res.req.op = "init" =>
         res.status = 500 /\ res.error = "Database not configured for production"

\* Without a pool, a create has been refused.
C3_Witness == ~pool /\ res.req.op = "create" /\ res.status = 500

C4_Step ==
  (/\ pool /\ tableExists
   /\ res'.req.op \in {"put", "delete"}
   /\ res'.req.id \notin RowIds(rows)) =>
    res'.status = 200 /\ res'.success /\ rows' = rows

\* C4: with a pool and the table in place, an update in any mode or a delete
\* whose id matches no row answers success and leaves the rows as they were.
C4_MissingIdSucceeds == [][C4_Step]_vars

\* An update or delete of an id no create ever returned has answered success
\* while other topics are stored.
C4_Witness ==
  /\ pool /\ res.req.op \in {"put", "delete"} /\ res.success
  /\ res.req.id \notin Range(created)
  /\ rows # {}

\* The preview the data model derives from content.
ExpectedPreview(content) ==
  IF content = Null \/ content = <<>> THEN <<>>
  ELSE Substring0(StripTags(content), PreviewLen) \o Ellipsis

IsPrefix(p, s) == Len(p) <= Len(s) /\ SubSeq(s, 1, Len(p)) = p

\* C6: every stored topic's preview is the one derived from its content, and
\* so is the preview a get returns: the stripped content's first 200
\* characters followed by the ellipsis, or '' for empty or absent content.
C6_PreviewDerived ==
  /\ \A r \in rows : r.preview = ExpectedPreview(r.content)
  /\ (res.req.op = "get" /\ res.status = 200) =>
       LET t == res.topics[1]
       IN  /\ t.preview = ExpectedPreview(t.content)
           /\ Truthy(t.content) =>
                /\ Len(t.preview) <= PreviewLen + Len(Ellipsis)
                /\ IsPrefix(SubSeq(t.preview, 1, Len(t.preview) - Len(Ellipsis)),
                            StripTags(t.content))

\* A get has returned a topic whose stripped content is longer than the
\* preview, and another topic was created from a body that supplied a preview.
C6_Witness ==
  /\ res.req.op = "get" /\ res.status = 200
  /\ res.topics[1].content = LongContent
  /\ Len(res.topics[1].preview) = PreviewLen + Len(Ellipsis)
  /\ \E i \in Ids : createdWith[i] = 1

C7_State ==
  /\ \A i, j \in 1..Len(created) : i # j => created[i] # created[j]
  /\ \A r, q \in rows : r.id = q.id => r = q

C7_Step ==
  /\ (res'.req.op = "create" /\ res'.success) =>
       /\ res'.insertId \notin Range(created)
       /\ res'.insertId \notin RowIds(rows)
  /\ res'.req.op = "put" => RowIds(rows') = RowIds(rows)

\* C7: no two creates ever return the same id, also once topics were deleted,
\* no two stored topics share an id, and no update changes the set of ids.
C7_IdsUnique == [](C7_State) /\ [][C7_Step]_vars

\* A create has answered after the first topic was deleted.
C7_Witness ==
  /\ Len(created) = 2 /\ RowIds(rows) = {2}
  /\ res.req.op = "create" /\ res.insertId = 2

\* The row a full-field replacement with body b leaves of r.
Replaced(r, b) ==
  [r EXCEPT !.title = IF b.title = Undefined THEN <<>> ELSE b.title,
            !.category = IF b.category = Undefined THEN Null ELSE b.category,
            !.keywords = KeywordStr(b.keywords),
            !.preview = ExpectedPreview(ToSql(b.content)),
            !.content = IF b.content = Undefined THEN Null ELSE b.content,
            !.author = IF b.author = Undefined THEN AuthorDefault ELSE b.author]

IsReplacement(q) == pool /\ q.op = "put" /\ ~q.iv /\ ~q.ih /\ q.id \in RowIds(rows)

C10_OriginalStep ==
  IsReplacement(res'.req) =>
    rows' = {IF r.id = res'.req.id THEN Replaced(r, Bodies[res'.req.body]) ELSE r :
               r \in rows}

\* C10 as stated: every full-field replacement of an existing topic writes
\* all six fields from the body, omitted ones as empty or absent.
C10_Original == [][C10_OriginalStep]_vars

C10_AmendedStep ==
  (IsReplacement(res'.req)
     /\ (strictMode => Bodies[res'.req.body].title # Undefined)) =>
    /\ res'.success
    /\ rows' = {IF r.id = res'.req.id THEN Replaced(r, Bodies[res'.req.body]) ELSE r :
                  r \in rows}

\* C10 amended: a full-field replacement of an existing topic that supplies a
\* title, or runs on an engine without strict mode, writes all six fields from
\* the body without merging and leaves id, created_date, views, helpful and
\* every other row unchanged.
C10_ReplaceNoMerge == [][C10_AmendedStep]_vars

\* The empty body has replaced a topic that had been viewed: its title is
\* now empty, its category absent, its view still counted.
C10_Witness ==
  /\ res.req.op = "put" /\ ~res.req.iv /\ ~res.req.ih /\ res.req.body = 2
  /\ res.success
  /\ \E r \in rows :
       /\ r.id = res.req.id /\ r.title = <<>> /\ r.category = Null
       /\ r.content = Null /\ r.views = 1 /\ r.created_date < now

NoComma(k) == \A i \in 1..Len(k) : k[i] # ","
Trimmed(k) == k = <<>> \/ (k[1] # " " /\ k[Len(k)] # " ")

\* The topics of a read that were created from a keyword array and neither
\* replaced nor deleted since.
ReadBack(t) ==
  /\ res.req.op \in {"get", "list"} /\ res.status = 200
  /\ t \in Range(res.topics)
  /\ createdWith[t.id] # 0
  /\ Bodies[createdWith[t.id]].keywords.isArray

\* C5 as stated: a keyword list without commas reads back as submitted.
C5_Original ==
  \A t \in Range(res.topics) :
    (ReadBack(t) /\ \A k \in Range(Bodies[createdWith[t.id]].keywords.items) : NoComma(k))
      => t.keywords = Bodies[createdWith[t.id]].keywords.items

\* C5 amended: a keyword list reads back as submitted, in order, when no
\* keyword contains a comma or begins or ends with whitespace and the list is
\* not the single empty keyword.
C5_KeywordsRoundTrip ==
  \A t \in Range(res.topics) :
    LET items == Bodies[createdWith[t.id]].keywords.items
    IN  (/\ ReadBack(t)
         /\ \A k \in Range(items) : NoComma(k) /\ Trimmed(k)
         /\ items # <<<<>>>>)
          => t.keywords = items

\* A get has returned the three keywords, one with a space inside, of the
\* body that created the topic.
C5_Witness ==
  /\ res.req.op = "get" /\ res.status = 200
  /\ createdWith[res.topics[1].id] = 9
  /\ res.topics[1].keywords = <<<<"a", " ", "b">>, T("c"), T("a")>>

\* s contains sub as a substring.
Contains(s, sub) ==
  /\ s # Null
  /\ \E i \in 0..(Len(s) - Len(sub)) : SubSeq(s, i + 1, i + Len(sub)) = sub

\* The filter of the list operation as the contract states it.
Satisfies(r, q) ==
  /\ q.search # Undefined =>
       \/ Contains(r.title, q.search)
       \/ Contains(r.keywords, q.search)
       \/ Contains(r.content, q.search)
  /\ (q.category # Undefined /\ q.category # <<"a", "l", "l">>) =>
       r.category = q.category

\* C8: an unlimited list returns exactly the stored topics whose title,
\* keywords string or content contains the search text and whose category is
\* the one asked for, and category=all selects what no category selects.
C8_ListFilter ==
  /\ (res.req.op = "list" /\ res.status = 200 /\ ~res.req.limit.given) =>
       {t.id : t \in Range(res.topics)} = {r.id : r \in {x \in rows : Satisfies(x, res.req)}}
  /\ \A s \in Searches :
       {r \in rows : Where(r, ListStmt(s, <<"a", "l", "l">>, NoLimit))}
         = {r \in rows : Where(r, ListStmt(s, Undefined, NoLimit))}

\* The same for search texts free of the pattern characters of LIKE.
C8_LiteralSearch ==
  (/\ res.req.op = "list" /\ res.status = 200 /\ ~res.req.limit.given
   /\ \A i \in 1..Len(res.req.search) : res.req.search[i] \notin {"%", "_"}) =>
    {t.id : t \in Range(res.topics)} = {r.id : r \in {x \in rows : Satisfies(x, res.req)}}

\* A limit that is a number of rows: parseInt read a natural number.
RowLimit(l) == l.given /\ ~l.nan /\ l.n >= 0

\* C9: a list comes newest created_date first; with a limit of n rows it
\* returns min(n, matching) topics, none older than a matching topic it
\* left out, and without a limit it returns every matching topic.
C9_NewestFirstLimited ==
  (res.req.op = "list" /\ res.status = 200) =>
    LET t == res.topics
        M == {r \in rows : Where(r, Statement(res.req))}
        back == {r \in M : \E i \in 1..Len(t) : t[i].id = r.id}
    IN  /\ \A i, j \in 1..Len(t) : i < j => t[i].created_date >= t[j].created_date
        /\ \A i, j \in 1..Len(t) : i # j => t[i].id # t[j].id
        /\ \A i \in 1..Len(t) : \E r \in M : ToTopic(r) = t[i]
        /\ RowLimit(res.req.limit) =>
             Len(t) <= res.req.limit.n
               /\ Len(t) = Min(res.req.limit.n, Cardinality(M))
        /\ ~res.req.limit.given => Len(t) = Cardinality(M)
        /\ \A r \in back, q \in M \ back : r.created_date >= q.created_date

\* A list limited to one topic has returned the newer of two stored topics.
C9_Witness ==
  /\ res.req.op = "list" /\ res.status = 200
  /\ res.req.limit.given /\ res.req.limit.n = 1
  /\ Len(res.topics) = 1
  /\ \E r \in rows : r.id # res.topics[1].id
                      /\ r.created_date < res.topics[1].created_date

====
